---- MODULE Spec2Model ----
(***************************************************************************)
(* Model of the mkdocs-advanced-seo plugin (AdvancedSEOPlugin).            *)
(*                                                                         *)
(* Python strings are sequences of one-character strings, so that rstrip,  *)
(* lstrip, startswith and concatenation are computed character by          *)
(* character.  A dict is a function whose DOMAIN is the set of its keys;   *)
(* an object with optional attributes (an ancestor) likewise.  The parsed  *)
(* document (BeautifulSoup) is a record: whether it has a head, and the    *)
(* sequence of the head's children.                                        *)
(***************************************************************************)
EXTENDS Naturals, Sequences, FiniteSets, TLC

VARIABLES opts, config, page, doc, prev, out, pc, ret, log, processed

vars == <<opts, config, page, doc, prev, out, pc, ret, log, processed>>

\* ------------------------------------------------------------- bounds
MaxPages == 2
MaxAncestors == 2
MaxHead == 1

\* ------------------------------------------------------------ strings
EmptyStr == <<>>
Slash == "/"

Str_http == <<"h", "t", "t", "p">>
Str_dot == <<".">>
Str_index == <<"i", "n", "d", "e", "x">>
Str_social_prefix ==
  <<"a", "s", "s", "e", "t", "s", "/", "i", "m", "a", "g", "e", "s", "/",
    "s", "o", "c", "i", "a", "l", "/">>
Str_png == <<".", "p", "n", "g">>
Str_comma_space == <<",", " ">>
Str_Home == <<"H", "o", "m", "e">>

\* Optional[str]
None == [none |-> TRUE]
Some(s) == [none |-> FALSE, val |-> s]
Falsy(o) == o.none \/ o.val = EmptyStr

RECURSIVE rstrip(_, _)
rstrip(s, c) ==
  IF s /= <<>> /\ s[Len(s)] = c THEN rstrip(SubSeq(s, 1, Len(s) - 1), c) ELSE s

RECURSIVE lstrip(_, _)
lstrip(s, c) ==
  IF s /= <<>> /\ s[1] = c THEN lstrip(Tail(s), c) ELSE s

startswith(s, p) == Len(s) >= Len(p) /\ SubSeq(s, 1, Len(p)) = p

RECURSIVE join(_, _)
join(sep, items) ==
  IF items = <<>> THEN EmptyStr
  ELSE IF Len(items) = 1 THEN items[1]
  ELSE items[1] \o sep \o join(sep, Tail(items))

\* dict.get(key, default)
Get(d, key, default) == IF key \in DOMAIN d THEN d[key] ELSE default

\* ----------------------------------------------------------- resolver
\* self.config['url_base'] or config.get('site_url', '')
BaseUrl(o, c) ==
  IF o.url_base /= EmptyStr THEN o.url_base ELSE Get(c, "site_url", EmptyStr)

_resolve_url(path, o, c) ==
  IF startswith(path, Str_http) THEN path
  ELSE rstrip(BaseUrl(o, c), Slash) \o <<Slash>> \o lstrip(path, Slash)

_get_page_title(p, c) ==
  IF p.title /= EmptyStr
     /\ ("site_name" \notin DOMAIN c \/ p.title /= c["site_name"])
  THEN p.title
  ELSE Get(c, "site_name", EmptyStr)

\* A description that is in page.meta is returned as str() of it, which for
\* a string is the string itself, empty or not.
_get_page_description(p, c) ==
  IF "description" \in DOMAIN p.meta THEN p.meta["description"]
  ELSE IF p.is_homepage /\ Get(c, "site_description", EmptyStr) /= EmptyStr
  THEN c["site_description"]
  ELSE Get(c, "site_description", EmptyStr)

\* _get_canonical_url, had it not stripped the base's trailing slashes
_get_canonical_url_noslash(p, o, c) ==
  IF BaseUrl(o, c) = EmptyStr THEN EmptyStr
  ELSE BaseUrl(o, c) \o <<Slash>> \o lstrip(p.url, Slash)

_get_canonical_url(p, o, c) ==
  IF BaseUrl(o, c) = EmptyStr THEN EmptyStr
  ELSE rstrip(BaseUrl(o, c), Slash) \o <<Slash>> \o lstrip(p.url, Slash)

SocialPath(p) ==
  LET path == rstrip(p.url, Slash)
  IN  IF path = Str_dot THEN Str_index ELSE path

_get_social_image(p, o, c) ==
  IF "image" \in DOMAIN p.meta THEN Some(_resolve_url(p.meta["image"], o, c))
  ELSE IF "social" \in c["plugins"] \/ "material/social" \in c["plugins"]
  THEN Some(_resolve_url(Str_social_prefix \o SocialPath(p) \o Str_png, o, c))
  ELSE IF o.og_image /= EmptyStr THEN Some(_resolve_url(o.og_image, o, c))
  ELSE None

\* ----------------------------------------------------------- elements
MetaTag(name, content) ==
  [tag |-> "meta", attr |-> "name", key |-> name, content |-> content]

OgTag(property, content) ==
  [tag |-> "meta", attr |-> "property", key |-> property, content |-> content]

LinkTag(rel, href) ==
  [tag |-> "link", attr |-> "rel", key |-> rel, content |-> href]

ScriptTag(type, schema) ==
  [tag |-> "script", attr |-> "type", key |-> type, json |-> schema]

\* _add_meta, had it skipped a tag the head already holds
_add_meta_dedup(head, name, content) ==
  IF content = EmptyStr \/ MetaTag(name, content) \in {head[i] : i \in DOMAIN head}
  THEN head
  ELSE Append(head, MetaTag(name, content))

_add_meta(head, name, content) ==
  IF content = EmptyStr THEN head ELSE Append(head, MetaTag(name, content))

\* _add_og, had it appended a tag whatever the content
_add_og_always(head, property, content) ==
  Append(head, OgTag(property, content))

_add_og(head, property, content) ==
  IF content = EmptyStr THEN head ELSE Append(head, OgTag(property, content))

\* ----------------------------------------------------------- injector
\* page.meta.get('keywords', []) or config.get('tags', []), a list joined
Keywords(p, c) ==
  LET NoList == [list |-> TRUE, v |-> <<>>]
      own == Get(p.meta, "keywords", NoList)
      kw == IF own.v /= <<>> THEN own ELSE Get(c, "tags", NoList)
  IN  IF kw.list THEN join(Str_comma_space, kw.v) ELSE kw.v

\* page.meta.get('author', config.get('site_author', ''))
Author(p, c) == Get(p.meta, "author", Get(c, "site_author", EmptyStr))

_inject_basic_meta(head, p, o, c) ==
  LET desc == _get_page_description(p, c)
      h1 == IF desc /= EmptyStr THEN _add_meta(head, "description", desc) ELSE head
      keywords == Keywords(p, c)
      h2 == IF keywords /= EmptyStr THEN _add_meta(h1, "keywords", keywords) ELSE h1
      author == Author(p, c)
      h3 == IF author /= EmptyStr THEN _add_meta(h2, "author", author) ELSE h2
      canonical == _get_canonical_url(p, o, c)
  IN  IF o.use_canonical_url /\ canonical /= EmptyStr
      THEN Append(h3, LinkTag("canonical", canonical))
      ELSE h3

_inject_open_graph(head, p, o, c) ==
  LET title == _get_page_title(p, c)
      desc == _get_page_description(p, c)
      url == _get_canonical_url(p, o, c)
      h1 == _add_og(head, "og:type", o.og_type)
      h2 == IF title /= EmptyStr THEN _add_og(h1, "og:title", title) ELSE h1
      h3 == IF desc /= EmptyStr THEN _add_og(h2, "og:description", desc) ELSE h2
      h4 == IF url /= EmptyStr THEN _add_og(h3, "og:url", url) ELSE h3
      site_name == Get(c, "site_name", EmptyStr)
      h5 == IF site_name /= EmptyStr THEN _add_og(h4, "og:site_name", site_name) ELSE h4
      h6 == _add_og(h5, "og:locale", o.og_locale)
      image_url == _get_social_image(p, o, c)
  IN  IF ~Falsy(image_url) THEN _add_og(h6, "og:image", image_url.val) ELSE h6

_inject_twitter_cards(head, p, o, c) ==
  LET h1 == _add_meta(head, "twitter:card", o.twitter_card_type)
      site == o.twitter_site
      h2 == IF site /= EmptyStr THEN _add_meta(h1, "twitter:site", site) ELSE h1
      creator == o.twitter_creator
      h3 == IF creator /= EmptyStr THEN _add_meta(h2, "twitter:creator", creator) ELSE h2
      title == _get_page_title(p, c)
      h4 == IF title /= EmptyStr THEN _add_meta(h3, "twitter:title", title) ELSE h3
      desc == _get_page_description(p, c)
      h5 == IF desc /= EmptyStr THEN _add_meta(h4, "twitter:description", desc) ELSE h4
      image_url == _get_social_image(p, o, c)
  IN  IF ~Falsy(image_url) THEN _add_meta(h5, "twitter:image", image_url.val) ELSE h5

\* --------------------------------------------------------------- dates
\* dateutil's parser on the date strings of the model: a date-only string
\* parses to midnight of that day, the other string does not parse.
Str_date == <<"2", "0", "2", "5", "-", "0", "7", "-", "2", "3">>
Str_date_iso == Str_date \o <<"T", "0", "0", ":", "0", "0", ":", "0", "0">>
Str_bad_date == <<"n", "/", "a">>

DateWarning(date_str) == [kind |-> "date", what |-> date_str]
HeadWarning(src_path) == [kind |-> "head", what |-> src_path]

_parse_date_string(date_str) ==
  IF date_str = Str_date
  THEN [val |-> Some(Str_date_iso), warns |-> <<>>]
  ELSE [val |-> None, warns |-> <<DateWarning(date_str)>>]

_get_date(p, type_) ==
  LET key == IF type_ = "created" THEN "document_dates_created"
             ELSE "document_dates_updated"
      date_str == Get(p.meta, key, EmptyStr)
  IN  IF date_str /= EmptyStr THEN _parse_date_string(date_str)
      ELSE [val |-> None, warns |-> <<>>]

\* ------------------------------------------------------------- JSON-LD
ListItem(position, name, item) ==
  [type |-> "ListItem", position |-> position, name |-> name, item |-> item]

\* The loop body, had it counted a skipped ancestor's position
AncestorStep_countskipped(acc, ancestor, o, c) ==
  IF "url" \in DOMAIN ancestor /\ "title" \in DOMAIN ancestor
  THEN [items |-> Append(acc.items,
                         ListItem(acc.position, ancestor["title"],
                                  _resolve_url(ancestor["url"], o, c))),
        position |-> acc.position + 1]
  ELSE [items |-> acc.items, position |-> acc.position + 1]

\* One pass of "for ancestor in page.ancestors" over acc = [items, position]
AncestorStep(acc, ancestor, o, c) ==
  IF "url" \in DOMAIN ancestor /\ "title" \in DOMAIN ancestor
  THEN [items |-> Append(acc.items,
                         ListItem(acc.position, ancestor["title"],
                                  _resolve_url(ancestor["url"], o, c))),
        position |-> acc.position + 1]
  ELSE acc

RECURSIVE AncestorLoop(_, _, _, _, _)
AncestorLoop(ancestors, i, acc, o, c) ==
  IF i > Len(ancestors) THEN acc
  ELSE AncestorLoop(ancestors, i + 1, AncestorStep(acc, ancestors[i], o, c), o, c)

Breadcrumbs(p, o, c, title, url) ==
  LET root == [items |-> <<ListItem(1, Get(c, "site_name", Str_Home), BaseUrl(o, c))>>,
               position |-> 2]
      acc == AncestorLoop(p.ancestors, 1, root, o, c)
  IN  Append(acc.items, ListItem(acc.position, title, url))

Opt(key, present, value) == [k \in {x \in {key} : present} |-> value]

Schema(p, o, c) ==
  LET url == _get_canonical_url(p, o, c)
      title == _get_page_title(p, c)
      desc == _get_page_description(p, c)
      date_published == _get_date(p, "created").val
      date_modified == _get_date(p, "updated").val
      author_name == Author(p, c)
  IN  [k \in {"@context", "@type"} |-> IF k = "@type" THEN "WebPage" ELSE "https://schema.org"]
      @@ ("name" :> title) @@ ("url" :> url)
      @@ Opt("description", desc /= EmptyStr, desc)
      @@ Opt("datePublished", ~Falsy(date_published), date_published.val)
      @@ Opt("dateModified", ~Falsy(date_modified), date_modified.val)
      @@ Opt("author", author_name /= EmptyStr, [type |-> "Person", name |-> author_name])
      @@ Opt("breadcrumb", p.ancestors /= <<>>,
             [type |-> "BreadcrumbList",
              itemListElement |-> Breadcrumbs(p, o, c, title, url)])

_inject_json_ld(head, p, o, c) ==
  [head |-> Append(head, ScriptTag("application/ld+json", Schema(p, o, c))),
   warns |-> _get_date(p, "created").warns \o _get_date(p, "updated").warns]

\* -------------------------------------------------------- on_post_page
\* on_post_page, had it skipped a page without a head silently
on_post_page_nowarn(output, p, o, c) ==
  IF ~output.has_head
  THEN [html |-> output, warns |-> <<>>]
  ELSE LET h1 == _inject_basic_meta(output.head, p, o, c)
           h2 == IF o.use_open_graph THEN _inject_open_graph(h1, p, o, c) ELSE h1
           h3 == IF o.use_twitter_cards THEN _inject_twitter_cards(h2, p, o, c) ELSE h2
           j == _inject_json_ld(h3, p, o, c)
       IN  IF o.add_schema_org_json_ld
           THEN [html |-> [output EXCEPT !.head = j.head], warns |-> j.warns]
           ELSE [html |-> [output EXCEPT !.head = h3], warns |-> <<>>]

\* on_post_page, had it injected the Twitter block before Open Graph
on_post_page_twitter_first(output, p, o, c) ==
  IF ~output.has_head
  THEN [html |-> output, warns |-> <<HeadWarning(p.src_path)>>]
  ELSE LET h1 == _inject_basic_meta(output.head, p, o, c)
           h2 == IF o.use_twitter_cards THEN _inject_twitter_cards(h1, p, o, c) ELSE h1
           h3 == IF o.use_open_graph THEN _inject_open_graph(h2, p, o, c) ELSE h2
           j == _inject_json_ld(h3, p, o, c)
       IN  IF o.add_schema_org_json_ld
           THEN [html |-> [output EXCEPT !.head = j.head], warns |-> j.warns]
           ELSE [html |-> [output EXCEPT !.head = h3], warns |-> <<>>]

\* The value returned and the warnings logged by one call.
on_post_page(output, p, o, c) ==
  IF ~output.has_head
  THEN [html |-> output, warns |-> <<HeadWarning(p.src_path)>>]
  ELSE LET h1 == _inject_basic_meta(output.head, p, o, c)
           h2 == IF o.use_open_graph THEN _inject_open_graph(h1, p, o, c) ELSE h1
           h3 == IF o.use_twitter_cards THEN _inject_twitter_cards(h2, p, o, c) ELSE h2
           j == _inject_json_ld(h3, p, o, c)
       IN  IF o.add_schema_org_json_ld
           THEN [html |-> [output EXCEPT !.head = j.head], warns |-> j.warns]
           ELSE [html |-> [output EXCEPT !.head = h3], warns |-> <<>>]

\* ---------------------------------------------------------- the build
Str_website == <<"w", "e", "b", "s", "i", "t", "e">>
Str_en_US == <<"e", "n", "_", "U", "S">>
Str_summary_large_image ==
  <<"s", "u", "m", "m", "a", "r", "y", "_", "l", "a", "r", "g", "e", "_",
    "i", "m", "a", "g", "e">>

\* config_scheme's defaults
DefaultOpts ==
  [url_base |-> EmptyStr, use_canonical_url |-> TRUE,
   add_schema_org_json_ld |-> TRUE, use_open_graph |-> TRUE,
   og_type |-> Str_website, og_image |-> EmptyStr, og_locale |-> Str_en_US,
   use_twitter_cards |-> TRUE, twitter_card_type |-> Str_summary_large_image,
   twitter_image |-> EmptyStr, twitter_creator |-> EmptyStr,
   twitter_site |-> EmptyStr]

NoDoc == [has_head |-> FALSE, head |-> <<>>]
NoRet == [fn |-> "none"]
NoPage ==
  [url |-> EmptyStr, title |-> EmptyStr, is_homepage |-> FALSE,
   ancestors |-> <<>>, meta |-> <<>>, src_path |-> EmptyStr]

\* The state after the plugin is loaded: options and site configuration
\* are fixed for the build, no page has been handed over yet.
InitWith(OptsSet, ConfigSet) ==
  /\ opts \in OptsSet
  /\ config \in ConfigSet
  /\ page = NoPage
  /\ doc = NoDoc
  /\ prev = NoDoc
  /\ out = NoDoc
  /\ pc = "idle"
  /\ ret = NoRet
  /\ log = <<>>
  /\ processed = 0

\* The host renders the next page and is about to call the hook on it.
LoadPage(PageSet, DocSet) ==
  /\ pc \in {"idle", "done", "done2"}
  /\ processed < MaxPages
  /\ page' \in PageSet
  /\ doc' \in DocSet
  /\ prev' = NoDoc
  /\ out' = NoDoc
  /\ pc' = "loaded"
  /\ ret' = NoRet
  /\ processed' = processed + 1
  /\ UNCHANGED <<opts, config, log>>

\* The resolver's functions applied to the page at hand.
Call_get_canonical_url ==
  /\ pc = "loaded"
  /\ ret' = [fn |-> "canonical", val |-> _get_canonical_url(page, opts, config)]
  /\ UNCHANGED <<opts, config, page, doc, prev, out, pc, log, processed>>

Call_get_page_description ==
  /\ pc = "loaded"
  /\ ret' = [fn |-> "description", val |-> _get_page_description(page, config)]
  /\ UNCHANGED <<opts, config, page, doc, prev, out, pc, log, processed>>

Call_get_social_image ==
  /\ pc = "loaded"
  /\ ret' = [fn |-> "image", val |-> _get_social_image(page, opts, config)]
  /\ UNCHANGED <<opts, config, page, doc, prev, out, pc, log, processed>>

\* The host calls on_post_page(output, page, config) on the rendered page.
OnPostPage ==
  /\ pc = "loaded"
  /\ LET r == on_post_page(doc, page, opts, config)
     IN  /\ out' = r.html
         /\ log' = log \o r.warns
  /\ prev' = doc
  /\ pc' = "done"
  /\ ret' = NoRet
  /\ UNCHANGED <<opts, config, page, doc, processed>>

\* on_post_page called again on what the first call returned, with the
\* same page, configuration and options.
OnPostPageAgain ==
  /\ pc = "done"
  /\ LET r == on_post_page(out, page, opts, config)
     IN  /\ out' = r.html
         /\ log' = log \o r.warns
  /\ prev' = out
  /\ pc' = "done2"
  /\ UNCHANGED <<opts, config, page, doc, ret, processed>>

\* ----------------------------------------------------- inputs of Spec
Bools == {TRUE, FALSE}
Str_Site == <<"S", "i", "t", "e">>
Str_Desc == <<"D", "e", "s", "c">>
Str_D == <<"D">>
Str_T == <<"T">>
Str_base_d == <<"h", "t", "t", "p", "s", ":", "/", "/", "x", ".", "i", "o", "/", "d", "/">>
Str_a == <<"a", "/">>
Str_a_md == <<"a", ".", "m", "d">>
Str_index_md == <<"i", "n", "d", "e", "x", ".", "m", "d">>
Str_k1 == <<"k", "1">>
Str_k2 == <<"k", "2">>
Str_Ann == <<"A", "n", "n">>

TitleTag == [tag |-> "title", attr |-> "", key |-> "", content |-> Str_T]

\* What the theme may already have put in the head.
ThemeTags == {TitleTag, MetaTag("description", Str_D)}

SeqsUpTo(S, n) == UNION {[1..k -> S] : k \in 0..n}

DocsWithHead == {[has_head |-> TRUE, head |-> h] : h \in SeqsUpTo(ThemeTags, MaxHead)}
Docs == DocsWithHead \cup {NoDoc}

OptsMain ==
  {[DefaultOpts EXCEPT !.url_base = Str_base_d,
                       !.use_canonical_url = f[1], !.use_open_graph = f[2],
                       !.use_twitter_cards = f[3], !.add_schema_org_json_ld = f[4]]
     : f \in [1..4 -> Bools]}

ConfigMain ==
  {[site_name |-> Str_Site, site_description |-> Str_Desc, plugins |-> {"search"}]}

MetaPlain == <<>>
MetaDesc == [k \in {"description"} |-> Str_D]
MetaFull ==
  ("description" :> Str_D)
  @@ ("keywords" :> [list |-> TRUE, v |-> <<Str_k1, Str_k2>>])
  @@ ("author" :> Str_Ann)
  @@ ("document_dates_created" :> Str_date)
  @@ ("document_dates_updated" :> Str_bad_date)

PagesMain ==
  {[url |-> Str_a, title |-> Str_T, is_homepage |-> FALSE, ancestors |-> <<>>,
    meta |-> m, src_path |-> Str_a_md] : m \in {MetaPlain, MetaDesc, MetaFull}}
  \cup {[url |-> EmptyStr, title |-> Str_Site, is_homepage |-> TRUE,
         ancestors |-> <<>>, meta |-> MetaPlain, src_path |-> Str_index_md]}

Init == InitWith(OptsMain, ConfigMain)

Next ==
  \/ LoadPage(PagesMain, Docs)
  \/ Call_get_canonical_url
  \/ Call_get_page_description
  \/ Call_get_social_image
  \/ OnPostPage
  \/ OnPostPageAgain

Spec == Init /\ [][Next]_vars

\* ------------------------------------------------- inputs of SpecTags
Str_at_s == <<"@", "s">>
Str_at_c == <<"@", "c">>
Str_d_png == <<"d", ".", "p", "n", "g">>

OptsTags ==
  {[DefaultOpts EXCEPT !.url_base = u, !.use_open_graph = f[1],
                       !.use_twitter_cards = f[2], !.og_type = t, !.og_locale = l,
                       !.twitter_card_type = k, !.twitter_site = s,
                       !.twitter_creator = cr, !.og_image = im]
     : f \in [1..2 -> Bools], u \in {EmptyStr, Str_base_d},
       t \in {EmptyStr, Str_website}, l \in {EmptyStr, Str_en_US},
       k \in {EmptyStr, Str_summary_large_image}, s \in {EmptyStr, Str_at_s},
       cr \in {EmptyStr, Str_at_c}, im \in {EmptyStr, Str_d_png}}

ConfigTags ==
  {[plugins |-> {"search"}],
   [plugins |-> {"search"}, site_name |-> EmptyStr],
   [plugins |-> {"search"}, site_name |-> Str_Site]}

PagesTags ==
  {[url |-> Str_a, title |-> t, is_homepage |-> FALSE, ancestors |-> <<>>,
    meta |-> m, src_path |-> Str_a_md]
     : t \in {EmptyStr, Str_T},
       m \in {MetaPlain, MetaDesc, [k \in {"description"} |-> EmptyStr]}}

DocsTags == {[has_head |-> TRUE, head |-> <<TitleTag>>]}

InitTags == InitWith(OptsTags, ConfigTags)

NextTags ==
  \/ LoadPage(PagesTags, DocsTags)
  \/ Call_get_canonical_url
  \/ Call_get_page_description
  \/ Call_get_social_image
  \/ OnPostPage
  \/ OnPostPageAgain

SpecTags == InitTags /\ [][NextTags]_vars

\* -------------------------------------------------- inputs of SpecUrl
Str_base_nos == <<"h", "t", "t", "p", "s", ":", "/", "/", "x", ".", "i", "o", "/", "d">>
Str_site_url == <<"h", "t", "t", "p", "s", ":", "/", "/", "s", ".", "i", "o", "/", "/">>
Str_t_png == <<"t", ".", "p", "n", "g">>
Str_custom_jpg == <<"c", "u", "s", "t", "o", "m", ".", "j", "p", "g">>
Str_abs_custom_jpg == <<"/", "c", "u", "s", "t", "o", "m", ".", "j", "p", "g">>
Str_http_image == <<"h", "t", "t", "p", ":", "/", "/", "i", ".", "i", "o", "/", "c", ".", "p", "n", "g">>
Str_abs_a == <<"/", "a", "/">>
Str_abs_abs_a_b == <<"/", "/", "a", "/", "b", "/">>

OptsUrl ==
  {[DefaultOpts EXCEPT !.url_base = u, !.og_image = im, !.twitter_image = tw]
     : u \in {EmptyStr, Str_base_d, Str_base_nos},
       im \in {EmptyStr, Str_d_png}, tw \in {EmptyStr, Str_t_png}}

ConfigUrl ==
  {[site_name |-> Str_Site, plugins |-> pl] @@ su
     : pl \in {{"search"}, {"search", "social"}, {"material/social"}},
       su \in {<<>>, [k \in {"site_url"} |-> EmptyStr],
               [k \in {"site_url"} |-> Str_site_url]}}

\* The homepage's url is '' (or '.', as older hosts gave it); the other
\* pages' urls are site-relative, and the join also has to cope with
\* leading slashes.
HomeUrls == {EmptyStr, Str_dot}

PagesUrl ==
  {[url |-> u, title |-> Str_T, is_homepage |-> u \in HomeUrls, ancestors |-> <<>>,
    meta |-> m, src_path |-> IF u \in HomeUrls THEN Str_index_md ELSE Str_a_md]
     : u \in HomeUrls \cup {Str_a, Str_abs_a, Str_abs_abs_a_b},
       m \in {MetaPlain} \cup
             {[k \in {"image"} |-> im]
                : im \in {Str_custom_jpg, Str_abs_custom_jpg, Str_http_image}}}

InitUrl == InitWith(OptsUrl, ConfigUrl)

NextUrl ==
  \/ LoadPage(PagesUrl, DocsTags)
  \/ Call_get_canonical_url
  \/ Call_get_page_description
  \/ Call_get_social_image
  \/ OnPostPage
  \/ OnPostPageAgain

SpecUrl == InitUrl /\ [][NextUrl]_vars

\* ------------------------------------------------- inputs of SpecMeta
Str_s == <<"s", "/">>
Str_s_t == <<"s", "/", "t", "/">>
Str_u == <<"u", "/">>
Str_s_t_p == <<"s", "/", "t", "/", "p", "/">>
Str_S1 == <<"S", "1">>
Str_S2 == <<"S", "2">>
Str_S3 == <<"S", "3">>

OptsMeta ==
  {[DefaultOpts EXCEPT !.url_base = u, !.add_schema_org_json_ld = j]
     : u \in {EmptyStr, Str_base_d}, j \in Bools}

ConfigMeta ==
  {[plugins |-> {"search"}] @@ sn @@ sd
     : sn \in {<<>>, [k \in {"site_name"} |-> Str_Site]},
       sd \in {<<>>, [k \in {"site_description"} |-> EmptyStr],
               [k \in {"site_description"} |-> Str_Desc]}}

\* Ancestors are pages and sections: some have a url and a title, a section
\* has a title only, another object a url only.
AncestorKinds ==
  {[url |-> Str_s, title |-> Str_S1], [url |-> Str_s_t, title |-> Str_S2],
   [title |-> Str_S3], [url |-> Str_u]}

\* The homepage has no ancestors.
PagesMeta ==
  {[url |-> IF a = <<>> /\ h THEN EmptyStr ELSE Str_s_t_p, title |-> Str_T,
    is_homepage |-> (a = <<>> /\ h), ancestors |-> a, meta |-> m,
    src_path |-> IF a = <<>> /\ h THEN Str_index_md ELSE Str_a_md]
     : h \in Bools, a \in SeqsUpTo(AncestorKinds, MaxAncestors),
       m \in {MetaPlain, MetaDesc, [k \in {"description"} |-> EmptyStr]}}

InitMeta == InitWith(OptsMeta, ConfigMeta)

NextMeta ==
  \/ LoadPage(PagesMeta, DocsTags)
  \/ Call_get_canonical_url
  \/ Call_get_page_description
  \/ Call_get_social_image
  \/ OnPostPage
  \/ OnPostPageAgain

SpecMeta == InitMeta /\ [][NextMeta]_vars

\* ------------------------------------------------------------- claims
\* What one call appended: the head returned, minus the head handed in.
Appended(before, after) == SubSeq(after.head, Len(before.head) + 1, Len(after.head))

Elems(seq) == {seq[i] : i \in DOMAIN seq}
Count(seq, e) == Cardinality({i \in DOMAIN seq : seq[i] = e})
CountKey(seq, attr, key) ==
  Cardinality({i \in DOMAIN seq : seq[i].attr = attr /\ seq[i].key = key})

HeadWarnings(l) == {i \in DOMAIN l : l[i].kind = "head"}

\* C1: a page whose HTML has no head comes back unchanged with nothing
\* appended and exactly one warning naming the page is logged; a page with a
\* head, whatever was logged before it, keeps its head as a prefix, gets its
\* elements appended and logs no missing-head warning.
C1_NoHeadSkipped ==
  [][(pc = "loaded" /\ pc' = "done") =>
       IF ~doc.has_head
       THEN /\ out' = doc
            /\ out'.head = <<>>
            /\ log' = Append(log, HeadWarning(page.src_path))
       ELSE /\ out'.has_head
            /\ SubSeq(out'.head, 1, Len(doc.head)) = doc.head
            /\ HeadWarnings(log') = HeadWarnings(log)
            /\ opts.add_schema_org_json_ld =>
                 /\ Len(out'.head) > Len(doc.head)
                 /\ out'.head[Len(out'.head)].tag = "script"]_vars

\* A page with a head processed, and tagged, after a page without one was
\* skipped with its warning.
C1_Witness ==
  /\ pc = "done"
  /\ processed = 2
  /\ doc.has_head
  /\ HeadWarnings(log) /= {}
  /\ log[1] = HeadWarning(Str_index_md)
  /\ page.src_path = Str_a_md
  /\ Len(out.head) > Len(doc.head)

\* The block an appended element belongs to: 1 basic meta, 2 canonical link,
\* 3 Open Graph, 4 Twitter, 5 JSON-LD script.
TwitterKeys ==
  {"twitter:card", "twitter:site", "twitter:creator", "twitter:title",
   "twitter:description", "twitter:image"}

Block(e) ==
  CASE e.tag = "script" -> 5
    [] e.tag = "link" -> 2
    [] e.tag = "meta" /\ e.attr = "property" -> 3
    [] e.tag = "meta" /\ e.attr = "name" /\ e.key \in TwitterKeys -> 4
    [] OTHER -> 1

InBlock(seq, b) == SelectSeq(seq, LAMBDA e : Block(e) = b)

\* C7: the elements one call appends come after everything already in the
\* head, in the order basic meta, canonical link, og:*, twitter:*, JSON-LD;
\* a block whose flag is false contributes nothing, and each other block is
\* what its injector produces on its own.
C7_FixedOrder ==
  (pc = "done" /\ doc.has_head) =>
    LET added == Appended(doc, out)
    IN  /\ Len(out.head) >= Len(doc.head)
        /\ SubSeq(out.head, 1, Len(doc.head)) = doc.head
        /\ \A i, j \in DOMAIN added : i < j => Block(added[i]) <= Block(added[j])
        /\ \A i \in DOMAIN added :
             /\ Block(added[i]) = 1 => added[i].key \in {"description", "keywords", "author"}
             /\ Block(added[i]) = 2 => added[i].key = "canonical"
        /\ ~opts.use_canonical_url => InBlock(added, 2) = <<>>
        /\ ~opts.use_open_graph => InBlock(added, 3) = <<>>
        /\ ~opts.use_twitter_cards => InBlock(added, 4) = <<>>
        /\ ~opts.add_schema_org_json_ld => InBlock(added, 5) = <<>>
        /\ InBlock(added, 1) \o InBlock(added, 2)
             = _inject_basic_meta(<<>>, page, opts, config)
        /\ opts.use_canonical_url => Len(InBlock(added, 2)) = 1
        /\ opts.use_open_graph =>
             InBlock(added, 3) = _inject_open_graph(<<>>, page, opts, config)
        /\ opts.use_twitter_cards =>
             InBlock(added, 4) = _inject_twitter_cards(<<>>, page, opts, config)
        /\ opts.add_schema_org_json_ld => Len(InBlock(added, 5)) = 1

\* All five blocks appended behind a theme's tags.
C7_Witness ==
  /\ pc = "done"
  /\ doc.has_head
  /\ doc.head /= <<>>
  /\ \A b \in 1..5 : InBlock(Appended(doc, out), b) /= <<>>
  /\ Len(InBlock(Appended(doc, out), 1)) = 3

\* C8: a second call on the first call's output keeps that head as it is
\* and appends the same elements, in the same order, once more; nothing is
\* removed, replaced or deduplicated, so each appended element is there twice.
C8_SecondRunDuplicates ==
  (pc = "done2" /\ doc.has_head) =>
    LET inj == Appended(doc, prev)
        both == Appended(doc, out)
    IN  /\ prev.head = doc.head \o inj
        /\ out.head = prev.head \o inj
        /\ \A e \in Elems(inj) : Count(both, e) = 2 /\ Count(inj, e) = 1

\* Two runs over a head in which the theme already had the very description
\* tag the plugin appends.
C8_Witness ==
  /\ pc = "done2"
  /\ doc.has_head
  /\ MetaTag("description", Str_D) \in Elems(doc.head)
  /\ MetaTag("description", Str_D) \in Elems(Appended(doc, prev))
  /\ Len(out.head) > Len(prev.head)
  /\ Count(out.head, MetaTag("description", Str_D)) = 3

\* 1 if the string is non-empty, else 0
One(str) == IF str /= EmptyStr THEN 1 ELSE 0

ConditionalKeys ==
  {"og:title", "og:description", "og:url", "og:site_name", "og:image",
   "twitter:site", "twitter:creator", "twitter:title", "twitter:description",
   "twitter:image"}

\* The title a page shows: its own, else the site's name.
ShownTitle == IF page.title /= EmptyStr THEN page.title ELSE Get(config, "site_name", EmptyStr)

\* The tags whose value may be missing are appended only with a value, and
\* then once.
C10_ConditionalTags ==
  LET added == Appended(doc, out)
  IN  /\ \A i \in DOMAIN added :
           added[i].key \in ConditionalKeys => added[i].content /= EmptyStr
      /\ \A k \in ConditionalKeys :
           CountKey(added, "property", k) + CountKey(added, "name", k) <= 1
      /\ opts.use_open_graph =>
           /\ CountKey(added, "property", "og:title") = One(ShownTitle)
           /\ CountKey(added, "property", "og:site_name")
                = One(Get(config, "site_name", EmptyStr))
           /\ CountKey(added, "property", "og:url") = One(BaseUrl(opts, config))
      /\ opts.use_twitter_cards =>
           /\ CountKey(added, "name", "twitter:site") = One(opts.twitter_site)
           /\ CountKey(added, "name", "twitter:creator") = One(opts.twitter_creator)
           /\ CountKey(added, "name", "twitter:title") = One(ShownTitle)

\* C10 as stated: with use_open_graph exactly one og:type and one og:locale
\* tag, with use_twitter_cards exactly one twitter:card tag, whatever the
\* options' values; the other tags only with a non-empty value.
C10_Original ==
  (pc = "done" /\ doc.has_head) =>
    LET added == Appended(doc, out)
    IN  /\ opts.use_open_graph =>
             /\ CountKey(added, "property", "og:type") = 1
             /\ CountKey(added, "property", "og:locale") = 1
        /\ opts.use_twitter_cards => CountKey(added, "name", "twitter:card") = 1
        /\ C10_ConditionalTags

\* C10 as amended: one og:type, og:locale, twitter:card tag when the
\* option's value is non-empty and none when it is empty; the other tags
\* only with a non-empty value.
C10_TagsByValue ==
  (pc = "done" /\ doc.has_head) =>
    LET added == Appended(doc, out)
    IN  /\ opts.use_open_graph =>
             /\ CountKey(added, "property", "og:type") = One(opts.og_type)
             /\ CountKey(added, "property", "og:locale") = One(opts.og_locale)
        /\ opts.use_twitter_cards =>
             CountKey(added, "name", "twitter:card") = One(opts.twitter_card_type)
        /\ ~opts.use_open_graph =>
             \A i \in DOMAIN added : added[i].attr /= "property"
        /\ ~opts.use_twitter_cards =>
             \A i \in DOMAIN added : added[i].key \notin TwitterKeys
        /\ C10_ConditionalTags

\* og_type is empty, og_locale is not: no og:type tag, one og:locale tag.
C10_Witness ==
  /\ pc = "done"
  /\ doc.has_head
  /\ opts.use_open_graph
  /\ opts.use_twitter_cards
  /\ opts.og_type = EmptyStr
  /\ opts.og_locale /= EmptyStr
  /\ CountKey(Appended(doc, out), "property", "og:type") = 0
  /\ CountKey(Appended(doc, out), "property", "og:locale") = 1
  /\ CountKey(Appended(doc, out), "name", "twitter:card") = 1
  /\ CountKey(Appended(doc, out), "property", "og:title") = 0

\* The length of s without its trailing slashes, and the number of its
\* leading slashes.
StemLen(s) ==
  CHOOSE i \in 0..Len(s) :
    (i = 0 \/ s[i] /= Slash) /\ \A k \in (i + 1)..Len(s) : s[k] = Slash

LeadLen(s) ==
  CHOOSE j \in 0..Len(s) :
    (j = Len(s) \/ s[j + 1] /= Slash) /\ \A k \in 1..j : s[k] = Slash

\* url_base if non-empty, else site_url, else ''
ChosenBase ==
  IF opts.url_base /= EmptyStr THEN opts.url_base
  ELSE IF "site_url" \in DOMAIN config THEN config["site_url"] ELSE EmptyStr

\* C2: _get_canonical_url returns '' when the base (url_base, else
\* site_url) is empty; otherwise the base without its trailing slashes, one
\* '/', and the page's url without its leading slashes: at the join there
\* is exactly one '/'.
C2_CanonicalJoin ==
  (pc = "loaded" /\ ret.fn = "canonical") =>
    LET r == ret.val
        b == SubSeq(ChosenBase, 1, StemLen(ChosenBase))
        q == SubSeq(page.url, LeadLen(page.url) + 1, Len(page.url))
        n == Len(b)
    IN  IF ChosenBase = EmptyStr THEN r = EmptyStr
        ELSE /\ r = b \o <<Slash>> \o q
             /\ Len(r) = n + 1 + Len(q)
             /\ n > 0 => r[n] /= Slash
             /\ r[n + 1] = Slash
             /\ Len(r) > n + 1 => r[n + 2] /= Slash

\* A base ending in slashes joined with a url beginning with slashes.
C2_Witness ==
  /\ pc = "loaded"
  /\ ret.fn = "canonical"
  /\ opts.url_base = EmptyStr
  /\ ChosenBase = Str_site_url
  /\ page.url = Str_abs_abs_a_b
  /\ ret.val = <<"h", "t", "t", "p", "s", ":", "/", "/", "s", ".", "i", "o", "/", "a", "/", "b", "/">>

SocialActive == "social" \in config["plugins"] \/ "material/social" \in config["plugins"]

\* C4 as stated: the social image is the first of: the front-matter image
\* made absolute; with a social-card plugin, the synthesized path; the
\* configured default image, og_image or twitter_image, made absolute;
\* nothing.
C4_Original ==
  (pc = "loaded" /\ ret.fn = "image") =>
    ret.val =
      IF "image" \in DOMAIN page.meta
        THEN Some(_resolve_url(page.meta["image"], opts, config))
      ELSE IF SocialActive
        THEN Some(_resolve_url(Str_social_prefix \o SocialPath(page) \o Str_png,
                               opts, config))
      ELSE IF opts.og_image /= EmptyStr
        THEN Some(_resolve_url(opts.og_image, opts, config))
      ELSE IF opts.twitter_image /= EmptyStr
        THEN Some(_resolve_url(opts.twitter_image, opts, config))
      ELSE None

\* The content of the appended elements with the given key
Contents(added, key) == {added[i].content : i \in {j \in DOMAIN added : added[j].key = key}}

\* C5 as stated: for the homepage, with a non-empty base and a social-card
\* plugin, the canonical URL is the base with its trailing slashes replaced
\* by one '/', and the synthesized image is that URL followed by
\* assets/images/social/index.png.
C5_Original ==
  (/\ pc = "done"
   /\ doc.has_head
   /\ page.is_homepage
   /\ ChosenBase /= EmptyStr
   /\ SocialActive
   /\ "image" \notin DOMAIN page.meta) =>
    LET home == SubSeq(ChosenBase, 1, StemLen(ChosenBase)) \o <<Slash>>
        added == Appended(doc, out)
    IN  /\ Contents(added, "canonical") = {home}
        /\ Contents(added, "og:image") = {home \o Str_social_prefix \o Str_index \o Str_png}

UrlKeys == {"canonical", "og:url", "og:image", "twitter:image"}

\* C9 as stated: every URL written as canonical href, og:url, og:image or
\* twitter:image is scheme-prefixed and passed through, or a non-empty base
\* joined with a path; with url_base and site_url both empty no relative
\* path is written.
C9_Original ==
  (pc = "done" /\ doc.has_head) =>
    LET added == Appended(doc, out)
        stem == SubSeq(ChosenBase, 1, StemLen(ChosenBase)) \o <<Slash>>
    IN  \A i \in DOMAIN added :
          added[i].key \in UrlKeys =>
            \/ startswith(added[i].content, Str_http)
            \/ ChosenBase /= EmptyStr /\ startswith(added[i].content, stem)

\* C3 as stated: _get_page_description returns the first non-empty of the
\* front-matter description and site_description, and '' only when neither
\* is non-empty.
C3_Original ==
  (pc = "loaded" /\ ret.fn = "description") =>
    LET own == IF "description" \in DOMAIN page.meta
               THEN page.meta["description"] ELSE EmptyStr
        site == IF "site_description" \in DOMAIN config
                THEN config["site_description"] ELSE EmptyStr
    IN  /\ ret.val = IF own /= EmptyStr THEN own ELSE site
        /\ ret.val = EmptyStr <=> (own = EmptyStr /\ site = EmptyStr)

HasBoth(a) == {"url", "title"} \subseteq DOMAIN a

\* C6: with JSON-LD enabled, a page with ancestors gets a breadcrumb list:
\* the site root, one item per ancestor that has both a url and a title, in
\* the ancestors' order, and the page itself last, at positions 1, 2, ..., K;
\* a page without ancestors gets no breadcrumb field.
C6_Breadcrumbs ==
  (pc = "done" /\ doc.has_head /\ opts.add_schema_org_json_ld) =>
    /\ Len(out.head) > Len(doc.head)
    /\ out.head[Len(out.head)].tag = "script"
    /\ LET schema == out.head[Len(out.head)].json
           valid == SelectSeq(page.ancestors, HasBoth)
       IN  IF page.ancestors = <<>> THEN "breadcrumb" \notin DOMAIN schema
           ELSE /\ "breadcrumb" \in DOMAIN schema
                /\ LET items == schema["breadcrumb"].itemListElement
                       K == Len(items)
                   IN  /\ K = Len(valid) + 2
                       /\ \A i \in 1..K : items[i].position = i
                       /\ items[1].item = ChosenBase
                       /\ items[1].name = IF "site_name" \in DOMAIN config
                                          THEN config["site_name"] ELSE Str_Home
                       /\ \A i \in 1..Len(valid) :
                            /\ items[i + 1].name = valid[i]["title"]
                            /\ items[i + 1].item
                                 = SubSeq(ChosenBase, 1, StemLen(ChosenBase))
                                   \o <<Slash>> \o valid[i]["url"]
                       /\ items[K].name = ShownTitle
                       /\ items[K].item = schema["url"]

\* An ancestor without a url, then one with url and title: three items at
\* positions 1, 2, 3.
C6_Witness ==
  /\ pc = "done"
  /\ doc.has_head
  /\ opts.add_schema_org_json_ld
  /\ Len(page.ancestors) = 2
  /\ ~HasBoth(page.ancestors[1])
  /\ HasBoth(page.ancestors[2])
  /\ LET items == out.head[Len(out.head)].json["breadcrumb"].itemListElement
     IN  /\ Len(items) = 3
         /\ items[2].position = 2
         /\ items[2].name = page.ancestors[2]["title"]
         /\ items[3].position = 3

====
